---- MODULE Spec2Model ----
(***************************************************************************)
(* The resilient image-generation wrapper of the e-commerce backend:       *)
(* generateProductImage with its node-cache TTL cache (imageCache), the    *)
(* process-wide rate-limit timestamp (lastApiCall) and the bounded retry   *)
(* loop with exponential backoff.                                          *)
(*                                                                         *)
(* Time is Date.now() in milliseconds.  A caller is one invocation slot of *)
(* the async function; its steps are the synchronous segments between two  *)
(* awaits, which JavaScript runs atomically.                               *)
(***************************************************************************)
EXTENDS Integers, Sequences, FiniteSets, TLC

VARIABLES
    now,          \* Date.now(), ms
    lastApiCall,  \* module variable lastApiCall
    cache,        \* imageCache.data: key -> [t: expiry time, v: stored result]
    hits,         \* imageCache.stats.hits
    misses,       \* imageCache.stats.misses
    apiKey,       \* whether OPENAI_API_KEY is set (read once at module load)
    call,         \* per caller: the frame of its generateProductImage call
    calls,        \* number of calls started so far
    callers,      \* the callers that take part in the behaviour
    lastIns,      \* history: request fingerprint -> time of its last cache insertion
    insertedAt,   \* history: cache key -> time of the last set() for it
    lastPost,     \* history: time the last outbound HTTP call was issued (0: none yet)
    cleared,      \* history: keys flushed by clearCache and not stored since
    users,        \* the User collection: the ids of its documents
    categories,   \* the Category collection: the ids of its documents
    products,     \* the Product collection: id -> [price, categoryId]
    orders,       \* the Order collection: id -> [userId, products, total]
    minted,       \* the ObjectIds given to documents so far (none is given twice)
    req           \* the frame of the CRUD request being handled

\* the state of the image wrapper, and the state of the shop's collections
imageVars == <<now, lastApiCall, cache, hits, misses, apiKey, call, calls, callers, lastIns,
               insertedAt, lastPost, cleared>>
shopVars == <<users, categories, products, orders, minted, req>>

vars == <<now, lastApiCall, cache, hits, misses, apiKey, call, calls, callers, lastIns, insertedAt,
          lastPost, cleared, users, categories, products, orders, minted, req>>

-----------------------------------------------------------------------------
\* Program constants

MIN_DELAY == 1000

\* new NodeCache({ stdTTL: 3600 }), seconds
stdTTL == 3600

\* default of maxRetries
DefaultMaxRetries == 3

-----------------------------------------------------------------------------
\* Bounds of the model

Callers == {"c1", "c2"}

\* Date.now() when the process starts (any value of at least MIN_DELAY)
StartTime == 5000

\* how many calls are started in one behaviour
MaxCalls == 2

\* how many calls are started when two callers run side by side
MaxConcCalls == 3

\* the clock advances by ShortJump or LongJump; at most this many of each
MaxShortTicks == 6
MaxLongTicks == 1

ShortJump == MIN_DELAY
LongJump == stdTTL * 1000 - 2 * MIN_DELAY

-----------------------------------------------------------------------------
\* Options

\* An option is the set of the values given for it: {} when it is omitted
\* (undefined), {v} when it is given as v
NONE == {}

DefaultModel == "dall-e-3"
DefaultSize == "1024x1024"
DefaultQuality == "standard"
DefaultStyle == "vivid"

-----------------------------------------------------------------------------
\* Inputs

EmptyPrompt == << >>
PromptMug == <<"M", "u", "g">>

Prompts == {EmptyPrompt, PromptMug}

NoOptions ==
    [model |-> NONE, size |-> NONE, quality |-> NONE, style |-> NONE,
     maxRetries |-> NONE, useCache |-> NONE]

OptionSets ==
    [model : {NONE, {"dall-e-2"}}, size : {NONE}, quality : {NONE}, style : {NONE},
     maxRetries : {NONE, {-1}, {0}, {1}}, useCache : {NONE, {FALSE}}]

\* the calls made: every option set with a prompt, and the empty prompt with
\* no options, with caching off and with a single attempt
Requests ==
    ({PromptMug} \X OptionSets)
    \cup ({EmptyPrompt} \X {NoOptions, [NoOptions EXCEPT !.useCache = {FALSE}],
                             [NoOptions EXCEPT !.maxRetries = {1}]})

\* what an outbound attempt can end with: the image of a 200 response, or an
\* error caught by the catch block
\* (every generated image has a URL of its own: the number of the call it is
\* generated for)

Errors ==
    { [api |-> "Rate limit exceeded", msg |-> "Request failed with status code 429"],
      [api |-> "", msg |-> "timeout of 60000ms exceeded"] }

NoError == [api |-> "", msg |-> ""]
NoResult == [imageUrl |-> 0, revisedPrompt |-> "", fromCache |-> FALSE, attempts |-> -1]
NoThrow == [status |-> 0, text |-> "", attempts |-> 0, cause |-> ""]

-----------------------------------------------------------------------------
\* Option destructuring with defaults

Default(v, d) == IF v = NONE THEN d ELSE CHOOSE x \in v : TRUE

ModelOf(o) == Default(o.model, DefaultModel)
SizeOf(o) == Default(o.size, DefaultSize)
QualityOf(o) == Default(o.quality, DefaultQuality)
StyleOf(o) == Default(o.style, DefaultStyle)
MaxRetriesOf(o) == Default(o.maxRetries, DefaultMaxRetries)

\* (a destructuring that ignores useCache: false)
UseCacheOf_alwaysOn(o) == TRUE

UseCacheOf(o) == Default(o.useCache, TRUE)

-----------------------------------------------------------------------------
\* createCacheKey

UpperChars == <<"A","B","C","D","E","F","G","H","I","J","K","L","M",
                "N","O","P","Q","R","S","T","U","V","W","X","Y","Z">>
LowerChars == <<"a","b","c","d","e","f","g","h","i","j","k","l","m",
                "n","o","p","q","r","s","t","u","v","w","x","y","z">>
DigitChars == {"0","1","2","3","4","5","6","7","8","9"}

\* where each upper-case letter stands in UpperChars
UpperIndex ==
    [c \in {UpperChars[i] : i \in 1..Len(UpperChars)} |->
        CHOOSE i \in 1..Len(UpperChars) : UpperChars[i] = c]

\* toLowerCase() on one character
toLowerCase(c) == IF c \in DOMAIN UpperIndex THEN LowerChars[UpperIndex[c]] ELSE c

\* the characters [a-z0-9]
KeptChars == {LowerChars[i] : i \in 1..Len(LowerChars)} \cup DigitChars

\* replace(/[^a-z0-9]/g, '_') on one character
Sanitize(c) == IF c \in KeptChars THEN c ELSE "_"

KeyPromptLen == 50

\* (a key that takes the whole prompt)
NormalizePrompt_wholePrompt(pr) == [i \in 1..Len(pr) |-> Sanitize(toLowerCase(pr[i]))]

\* prompt.toLowerCase().replace(/[^a-z0-9]/g, '_').substring(0, 50)
NormalizePrompt(pr) ==
    LET n == IF Len(pr) < KeyPromptLen THEN Len(pr) ELSE KeyPromptLen
    IN  [i \in 1..n |-> Sanitize(toLowerCase(pr[i]))]

RECURSIVE StrFrom(_, _)
StrFrom(chars, i) == IF i > Len(chars) THEN "" ELSE chars[i] \o StrFrom(chars, i + 1)

\* the string of a sequence of characters
Str(chars) == StrFrom(chars, 1)

\* (a key built from the options as given: an omitted option prints as
\* "undefined")
createCacheKey_noDefaults(pr, o) ==
    "image_" \o Default(o.model, "undefined") \o "_" \o Default(o.size, "undefined")
        \o "_" \o Default(o.quality, "undefined") \o "_" \o Default(o.style, "undefined")
        \o "_" \o Str(NormalizePrompt(pr))

\* the template string `image_${model}_${size}_${quality}_${style}_${...}`
createCacheKey(pr, o) ==
    "image_" \o ModelOf(o) \o "_" \o SizeOf(o) \o "_" \o QualityOf(o) \o "_" \o StyleOf(o)
        \o "_" \o Str(NormalizePrompt(pr))

-----------------------------------------------------------------------------
\* node-cache: get, _check and set of imageCache
\* (the periodic sweep of node-cache removes only entries that _check already
\* refuses to return; it is not a step of this model)

\* _check: an entry is expired when data.t !== 0 && data.t < Date.now()
Expired(e, t) == e.t # 0 /\ e.t < t

\* (a get that skips _check)
CacheHas_noExpiry(c, key, t) == key \in DOMAIN c

\* get returns the value when the key is stored and not expired
CacheHas(c, key, t) == key \in DOMAIN c /\ ~Expired(c[key], t)

\* (a get that renews the TTL of the entry it returns)
CacheAfterGet_renews(c, key, t) ==
    IF key \in DOMAIN c
    THEN IF Expired(c[key], t)
         THEN [k \in DOMAIN c \ {key} |-> c[k]]
         ELSE [c EXCEPT ![key].t = t + stdTTL * 1000]
    ELSE c

\* get deletes the entry it finds expired (deleteOnExpire)
CacheAfterGet(c, key, t) ==
    IF key \in DOMAIN c /\ Expired(c[key], t)
    THEN [k \in DOMAIN c \ {key} |-> c[k]]
    ELSE c

\* (a set that leaves an entry already stored as it is)
CacheAfterSet_keepsFirst(c, key, v, t) ==
    [k \in DOMAIN c \cup {key} |->
        IF k \in DOMAIN c THEN c[k] ELSE [t |-> t + stdTTL * 1000, v |-> v]]

\* (a set that takes the TTL for milliseconds)
CacheAfterSet_ttlInMs(c, key, v, t) ==
    [k \in DOMAIN c \cup {key} |-> IF k = key THEN [t |-> t + stdTTL, v |-> v] ELSE c[k]]

\* set wraps the value with t = Date.now() + stdTTL * 1000
CacheAfterSet(c, key, v, t) ==
    [k \in DOMAIN c \cup {key} |-> IF k = key THEN [t |-> t + stdTTL * 1000, v |-> v] ELSE c[k]]

-----------------------------------------------------------------------------
\* The frame of a call

IdleFrame ==
    [pc |-> "idle", prompt |-> EmptyPrompt,
     options |-> NoOptions,
     attempt |-> 0, resume |-> 0, lastError |-> NoError,
     result |-> NoResult, error |-> NoThrow,
     id |-> 0, outbound |-> 0, backoffs |-> << >>, failures |-> << >>,
     lookups |-> 0, sets |-> 0, before |-> << >>, response |-> 0,
     productId |-> ""]

\* no CRUD request is being handled
IdleRequest ==
    [op |-> "none", pc |-> "idle", id |-> "", userId |-> "", items |-> << >>,
     categoryId |-> "", price |-> 0, i |-> 0, total |-> 0, reads |-> << >>,
     status |-> 0, made |-> ""]

\* the module state of the image utilities at load
InitImage ==
    /\ now = StartTime
    /\ lastApiCall = 0
    /\ cache = << >>
    /\ hits = 0
    /\ misses = 0
    /\ apiKey \in BOOLEAN
    /\ call = [p \in Callers |-> IdleFrame]
    /\ calls = 0
    /\ lastIns = << >>
    /\ insertedAt = << >>
    /\ lastPost = 0
    /\ cleared = {}

InitState ==
    /\ InitImage
    /\ users = {"u1"}
    /\ categories = {}
    /\ products = << >>
    /\ orders = << >>
    /\ minted = {}
    /\ req = IdleRequest

\* calls made one after the other
Init == InitState /\ callers = {"c1"}

-----------------------------------------------------------------------------
\* Pieces of generateProductImage

\* (a wrapper that does not check the credential)
Configured_unchecked == TRUE

\* if (!OPENAI_API_KEY)
Configured == apiKey

\* (a wrapper that does not check the prompt)
PromptGiven_unchecked(pr) == TRUE

\* if (!prompt): the empty string is the only falsy prompt
PromptGiven(pr) == pr # EmptyPrompt

\* (a loop that tests after its body: the first attempt is always made)
LoopContinues_atLeastOnce(att, maxR) == att = 1 \/ att <= maxR

\* (a loop that runs once more)
LoopContinues_offByOne(att, maxR) == att <= maxR + 1

\* for (...; attempt <= maxRetries; ...)
LoopContinues(att, maxR) == att <= maxR

\* (a sleep whose promise is never resolved)
SleepOver_neverResolves(resume) == FALSE

\* sleep(ms): the timer set at resume - ms has fired
SleepOver(resume) == now >= resume

\* (a gate that never makes a caller wait)
RateLimitWait_none(t, last) == 0

\* enforceRateLimit: the time to sleep, 0 when timeSinceLastCall >= MIN_DELAY
RateLimitWait(t, last) == IF t - last < MIN_DELAY THEN MIN_DELAY - (t - last) ELSE 0

\* (a loop that gives up one attempt early)
IsLastAttempt_early(att, maxR) == att + 1 >= maxR

\* if (attempt === maxRetries) break
IsLastAttempt(att, maxR) == att = maxR

\* (a backoff that starts at one second)
backoffDelay_fromOne(att) == (2 ^ (att - 1)) * 1000

\* Math.pow(2, attempt) * 1000
backoffDelay(att) == (2 ^ att) * 1000

\* (a message that drops the API's own error text)
ErrorMessage_noApiText(e) == IF e.msg # "" THEN e.msg ELSE "Unknown error"

\* lastError?.response?.data?.error?.message || lastError?.message || 'Unknown error'
ErrorMessage(e) ==
    IF e.api # "" THEN e.api ELSE IF e.msg # "" THEN e.msg ELSE "Unknown error"

\* throw new Error('Prompt is required', { cause: { status: 400 } })
ThrowPromptRequired(f) ==
    [f EXCEPT !.pc = "failed",
              !.error = [status |-> 400, text |-> "Prompt is required",
                         attempts |-> 0, cause |-> ""]]

\* throw new Error('OpenAI API key not configured', { cause: { status: 500 } })
ThrowNotConfigured(f) ==
    [f EXCEPT !.pc = "failed",
              !.error = [status |-> 500, text |-> "OpenAI API key not configured",
                         attempts |-> 0, cause |-> ""]]

\* the throw after the loop: `Failed to generate image after ${maxRetries}
\* attempts: ${errorMessage}`, status 500
ThrowExhausted(f) ==
    [f EXCEPT !.pc = "failed",
              !.error = [status |-> 500, text |-> "Failed to generate image",
                         attempts |-> MaxRetriesOf(f.options),
                         cause |-> ErrorMessage(f.lastError)]]

\* (a result that counts the attempts from zero)
SuccessResult_zeroBased(f) ==
    [imageUrl |-> f.id,
     revisedPrompt |-> IF ModelOf(f.options) = DefaultModel THEN "revised" ELSE "",
     fromCache |-> FALSE, attempts |-> f.attempt - 1]

\* const result = { imageUrl, revisedPrompt, fromCache: false, attempts: attempt }
\* (dall-e-2 answers without a revised_prompt)
SuccessResult(f) ==
    [imageUrl |-> f.id,
     revisedPrompt |-> IF ModelOf(f.options) = DefaultModel THEN "revised" ELSE "",
     fromCache |-> FALSE, attempts |-> f.attempt]

\* (a hit that reports the attempts of the call that stored the entry)
HitResult_keepsAttempts(cached) == [cached EXCEPT !.fromCache = TRUE]

\* return { ...cached, fromCache: true, attempts: 0 }
HitResult(cached) == [cached EXCEPT !.fromCache = TRUE, !.attempts = 0]

\* The loop test for attempt att followed by the synchronous part of
\* enforceRateLimit: the frame either sleeps in the gate, has passed it, or
\* has left the loop and thrown.
EnterAttempt(f, att) ==
    IF LoopContinues(att, MaxRetriesOf(f.options))
    THEN IF RateLimitWait(now, lastApiCall) > 0
         THEN [f EXCEPT !.pc = "rlwait", !.attempt = att,
                        !.resume = now + RateLimitWait(now, lastApiCall)]
         ELSE [f EXCEPT !.pc = "gated", !.attempt = att]
    ELSE ThrowExhausted([f EXCEPT !.attempt = att])

\* (a gate that stamps lastApiCall only after a sleep)
LastApiCallAfterEnter_onlyAfterSleep(f, att) == lastApiCall

\* lastApiCall = Date.now() runs in the same segment when no sleep is needed
LastApiCallAfterEnter(f, att) ==
    IF LoopContinues(att, MaxRetriesOf(f.options)) /\ RateLimitWait(now, lastApiCall) = 0
    THEN now ELSE lastApiCall

Fingerprint(pr, o) == <<pr, o.model, o.size, o.quality, o.style>>

CallBudget == IF callers = {"c1"} THEN MaxCalls ELSE MaxConcCalls

-----------------------------------------------------------------------------
\* Actions

\* (a sleep that spins until its time is over: nobody else runs meanwhile)
Unblocked_spinningSleep(p) ==
    \A q \in callers \ {p} : call[q].pc \notin {"rlwait", "backoff"}

\* sleep(ms) is a promise resolved by setTimeout: the sleeper gives the
\* thread back, and no caller is held up by another caller's sleep
Unblocked(p) == TRUE

\* generateProductImage(pr, o) up to its first await, as call number id of
\* caller p: validation, cache lookup, and on a miss the entry into the retry
\* loop
Invoke(p, pr, o, id) ==
    /\ Unblocked(p)
    /\ LET f0 == [IdleFrame EXCEPT !.prompt = pr, !.options = o, !.id = id, !.before = cache]
           key == createCacheKey(pr, o)
       IN  IF ~PromptGiven(pr)
           THEN /\ call' = [call EXCEPT ![p] = ThrowPromptRequired(f0)]
                /\ UNCHANGED <<lastApiCall, cache, hits, misses>>
           ELSE IF ~Configured
           THEN /\ call' = [call EXCEPT ![p] = ThrowNotConfigured(f0)]
                /\ UNCHANGED <<lastApiCall, cache, hits, misses>>
           ELSE IF UseCacheOf(o) /\ CacheHas(cache, key, now)
           THEN /\ call' = [call EXCEPT ![p] =
                              [f0 EXCEPT !.pc = "done", !.lookups = 1,
                                         !.result = HitResult(cache[key].v)]]
                /\ hits' = hits + 1
                /\ cache' = CacheAfterGet(cache, key, now)
                /\ UNCHANGED <<lastApiCall, misses>>
           ELSE /\ call' = [call EXCEPT ![p] =
                              EnterAttempt([f0 EXCEPT !.lookups =
                                                IF UseCacheOf(o) THEN 1 ELSE 0], 1)]
                /\ lastApiCall' = LastApiCallAfterEnter(f0, 1)
                /\ cache' = IF UseCacheOf(o) THEN CacheAfterGet(cache, key, now) ELSE cache
                /\ misses' = IF UseCacheOf(o) THEN misses + 1 ELSE misses
                /\ UNCHANGED hits

\* a caller calls generateProductImage(pr, o)
Call(p, pr, o) ==
    /\ call[p].pc = "idle"
    /\ calls < CallBudget
    /\ calls' = calls + 1
    /\ Invoke(p, pr, o, calls + 1)
    /\ UNCHANGED <<now, apiKey, callers, lastIns, insertedAt, lastPost, cleared>>
    /\ UNCHANGED shopVars

\* the sleep of enforceRateLimit ends: lastApiCall = Date.now()
RateLimitWake(p) ==
    /\ call[p].pc = "rlwait"
    /\ SleepOver(call[p].resume)
    /\ lastApiCall' = now
    /\ call' = [call EXCEPT ![p].pc = "gated"]
    /\ UNCHANGED <<now, cache, hits, misses, apiKey, calls, callers, lastIns, insertedAt, lastPost, cleared>>
    /\ UNCHANGED shopVars

\* await enforceRateLimit() resumes: the request is built and axios.post issues it
Post(p) ==
    /\ call[p].pc = "gated"
    /\ Unblocked(p)
    /\ call' = [call EXCEPT ![p].pc = "inflight", ![p].outbound = @ + 1]
    /\ lastPost' = now
    /\ UNCHANGED <<now, lastApiCall, cache, hits, misses, apiKey, calls, callers, lastIns, insertedAt, cleared>>
    /\ UNCHANGED shopVars

\* the response arrives with data[0]: the result is built, cached and returned
Succeed(p) ==
    /\ call[p].pc = "inflight"
    /\ LET f == call[p]
           key == createCacheKey(f.prompt, f.options)
           res == SuccessResult(f)
       IN  /\ call' = [call EXCEPT ![p].pc = "done", ![p].result = res,
                                   ![p].sets = IF UseCacheOf(f.options) THEN @ + 1 ELSE @]
           /\ IF UseCacheOf(f.options)
              THEN /\ cache' = CacheAfterSet(cache, key, res, now)
                   /\ insertedAt' = [k \in DOMAIN insertedAt \cup {key} |->
                                       IF k = key THEN now ELSE insertedAt[k]]
                   /\ lastIns' = [k \in DOMAIN lastIns \cup {Fingerprint(f.prompt, f.options)} |->
                                    IF k = Fingerprint(f.prompt, f.options)
                                    THEN now ELSE lastIns[k]]
                   /\ cleared' = cleared \ {key}
              ELSE UNCHANGED <<cache, insertedAt, lastIns, cleared>>
    /\ UNCHANGED <<now, lastApiCall, hits, misses, apiKey, calls, callers, lastPost>>
    /\ UNCHANGED shopVars

\* (a catch block that caches the last result slot when it gives up)
Fail_cachesOnGiveUp(p, e) ==
    /\ call[p].pc = "inflight"
    /\ LET f == [call[p] EXCEPT !.lastError = e, !.failures = Append(@, e)]
       IN  /\ call' = [call EXCEPT ![p] =
                  IF IsLastAttempt(f.attempt, MaxRetriesOf(f.options))
                  THEN ThrowExhausted(f)
                  ELSE [f EXCEPT !.pc = "backoff",
                                 !.resume = now + backoffDelay(f.attempt),
                                 !.backoffs = Append(@, backoffDelay(f.attempt))]]
           /\ cache' = IF IsLastAttempt(f.attempt, MaxRetriesOf(f.options))
                          /\ UseCacheOf(f.options)
                       THEN CacheAfterSet(cache, createCacheKey(f.prompt, f.options),
                                          f.result, now)
                       ELSE cache
    /\ UNCHANGED <<now, lastApiCall, hits, misses, apiKey, calls, callers, lastIns, insertedAt,
                   lastPost, cleared>>
    /\ UNCHANGED shopVars

\* (a catch that retries only what looks transient: a 401 ends the call)
Fail_givesUpOnClientError(p, e) ==
    /\ call[p].pc = "inflight"
    /\ LET f == [call[p] EXCEPT !.lastError = e, !.failures = Append(@, e)]
       IN  call' = [call EXCEPT ![p] =
                IF \/ IsLastAttempt(f.attempt, MaxRetriesOf(f.options))
                   \/ e.msg = "Request failed with status code 401"
                THEN ThrowExhausted(f)
                ELSE [f EXCEPT !.pc = "backoff",
                               !.resume = now + backoffDelay(f.attempt),
                               !.backoffs = Append(@, backoffDelay(f.attempt))]]
    /\ UNCHANGED <<now, lastApiCall, cache, hits, misses, apiKey, calls, callers, lastIns, insertedAt,
                   lastPost, cleared>>
    /\ UNCHANGED shopVars

\* the attempt throws (HTTP error, network error, timeout, body without
\* data[0]): the catch block records it, then breaks or sleeps the backoff
Fail(p, e) ==
    /\ call[p].pc = "inflight"
    /\ LET f == [call[p] EXCEPT !.lastError = e, !.failures = Append(@, e)]
       IN  call' = [call EXCEPT ![p] =
                IF IsLastAttempt(f.attempt, MaxRetriesOf(f.options))
                THEN ThrowExhausted(f)
                ELSE [f EXCEPT !.pc = "backoff",
                               !.resume = now + backoffDelay(f.attempt),
                               !.backoffs = Append(@, backoffDelay(f.attempt))]]
    /\ UNCHANGED <<now, lastApiCall, cache, hits, misses, apiKey, calls, callers, lastIns, insertedAt, lastPost, cleared>>
    /\ UNCHANGED shopVars

\* the backoff sleep ends: attempt++, loop test, enforceRateLimit
BackoffWake(p) ==
    /\ call[p].pc = "backoff"
    /\ SleepOver(call[p].resume)
    /\ call' = [call EXCEPT ![p] = EnterAttempt(call[p], call[p].attempt + 1)]
    /\ lastApiCall' = LastApiCallAfterEnter(call[p], call[p].attempt + 1)
    /\ UNCHANGED <<now, cache, hits, misses, apiKey, calls, callers, lastIns, insertedAt, lastPost, cleared>>
    /\ UNCHANGED shopVars

\* the caller has consumed the result or the error; the slot is free again
Return(p) ==
    /\ call[p].pc \in {"done", "failed"}
    /\ call' = [call EXCEPT ![p] = IdleFrame]
    /\ UNCHANGED <<now, lastApiCall, cache, hits, misses, apiKey, calls, callers, lastIns, insertedAt, lastPost, cleared>>
    /\ UNCHANGED shopVars

\* time passes
ShortTicks == ((now - StartTime) % LongJump) \div ShortJump
LongTicks == (now - StartTime) \div LongJump

Busy == {p \in callers : call[p].pc # "idle"}

\* The clock is sampled: it moves on by a second while a call is pending or
\* still to come, and by LongJump (the process idles for nearly the TTL)
\* between two calls.  The continuation of await enforceRateLimit() is a
\* microtask of the turn that assigned lastApiCall: it issues the request
\* before the clock, sampled in seconds, moves.
Tick ==
    /\ Busy # {} \/ calls < CallBudget
    /\ \A p \in callers : call[p].pc # "gated"
    /\ \/ ShortTicks < MaxShortTicks /\ now' = now + ShortJump
       \/ Busy = {} /\ LongTicks < MaxLongTicks /\ now' = now + LongJump
    /\ UNCHANGED <<lastApiCall, cache, hits, misses, apiKey, call, calls, callers, lastIns, insertedAt, lastPost, cleared>>
    /\ UNCHANGED shopVars

Next ==
    \/ \E p \in callers, r \in Requests : Call(p, r[1], r[2])
    \/ \E p \in callers : RateLimitWake(p)
    \/ \E p \in callers : Post(p)
    \/ \E p \in callers : Succeed(p)
    \/ \E p \in callers, e \in Errors : Fail(p, e)
    \/ \E p \in callers : BackoffWake(p)
    \/ \E p \in callers : Return(p)
    \/ Tick

Spec == Init /\ [][Next]_vars

-----------------------------------------------------------------------------
\* Vocabulary of the properties

\* caller p takes a step / enters generateProductImage
Step(p) == call'[p] # call[p]
Starts(p) == call[p].pc = "idle" /\ call'[p].pc # "idle"

KeyOf(f) == createCacheKey(f.prompt, f.options)
FingerprintOf(f) == Fingerprint(f.prompt, f.options)

\* states of a call inside the body of the retry loop
InLoop == {"rlwait", "gated", "inflight", "backoff"}

\* the call ended with the error thrown after the loop
Exhausted(f) == f.pc = "failed" /\ f.error.text = "Failed to generate image"

\* the call was answered from the cache
ServedFromCache(f) == f.pc = "done" /\ f.result.fromCache

-----------------------------------------------------------------------------
\* C1: with useCache on, a call that starts within the TTL (3600 s, the
\* boundary included) of the last cache insertion made by a successful call
\* with the same prompt, model, size, quality and style is answered in its
\* first step with fromCache = true and attempts = 0, without an outbound
\* HTTP call and without touching the rate-limit timestamp.
C1_RepeatIsServedFromCache ==
    [][\A p \in Callers :
        (/\ Starts(p)
         /\ PromptGiven(call'[p].prompt)
         /\ call'[p].options.useCache # {FALSE}
         /\ FingerprintOf(call'[p]) \in DOMAIN lastIns
         /\ now <= lastIns[FingerprintOf(call'[p])] + 3600 * 1000)
        => /\ call'[p].pc = "done"
           /\ call'[p].result.fromCache = TRUE
           /\ call'[p].result.attempts = 0
           /\ call'[p].outbound = 0
           /\ lastApiCall' = lastApiCall]_vars

\* a repeat exactly 3600 s after the insertion has been served from the cache
C1_Witness ==
    \E p \in Callers :
        /\ ServedFromCache(call[p])
        /\ call[p].outbound = 0
        /\ FingerprintOf(call[p]) \in DOMAIN lastIns
        /\ now = lastIns[FingerprintOf(call[p])] + 3600 * 1000

-----------------------------------------------------------------------------
\* C2 as stated: a call is never answered with an entry once 3600 s have
\* elapsed since the entry was inserted.
C2_NeverReturnedOnceTTLElapsed ==
    [][\A p \in Callers :
        (Starts(p) /\ ServedFromCache(call'[p]))
        => now - insertedAt[KeyOf(call'[p])] < 3600 * 1000]_vars

\* C2, amended: a call is never answered with an entry once MORE than 3600 s
\* have elapsed since its insertion; a cache hit leaves the stored entries
\* (and so their expiry times) as they are; and a validated call with
\* useCache on that starts more than 3600 s after the last insertion for its
\* key is a miss: it counts a miss, is not answered from the cache and enters
\* the retry loop (which throws at once when maxRetries < 1).
C2_NeverReturnedAfterTTL ==
    [][\A p \in Callers :
        /\ (Starts(p) /\ ServedFromCache(call'[p]))
           => /\ now - insertedAt[KeyOf(call'[p])] <= 3600 * 1000
              /\ cache' = cache
        /\ (/\ Starts(p)
            /\ PromptGiven(call'[p].prompt)
            /\ apiKey
            /\ call'[p].options.useCache # {FALSE}
            /\ KeyOf(call'[p]) \in DOMAIN insertedAt
            /\ now - insertedAt[KeyOf(call'[p])] > 3600 * 1000)
           => /\ ~ServedFromCache(call'[p])
              /\ misses' = misses + 1
              /\ hits' = hits
              /\ \/ call'[p].pc \in {"rlwait", "gated"}
                 \/ MaxRetriesOf(call'[p].options) < 1 /\ Exhausted(call'[p])]_vars

\* a call has missed on an entry that had expired and is on the outbound path
C2_Witness ==
    \E p \in Callers :
        /\ call[p].pc = "inflight"
        /\ call[p].lookups = 1
        /\ call[p].outbound = 1
        /\ KeyOf(call[p]) \in DOMAIN call[p].before
        /\ KeyOf(call[p]) \in DOMAIN insertedAt
        /\ now - insertedAt[KeyOf(call[p])] > 3600 * 1000

-----------------------------------------------------------------------------
Max(a, b) == IF a >= b THEN a ELSE b

\* C3 as stated: the number of outbound HTTP attempts of a call never exceeds
\* its maxRetries, and inside the loop the attempt counter is in 1..maxRetries.
C3_AttemptsNeverExceedMaxRetries ==
    \A p \in Callers :
        call[p].pc # "idle"
        => /\ call[p].outbound <= MaxRetriesOf(call[p].options)
           /\ call[p].pc \in InLoop
              => call[p].attempt \in 1..MaxRetriesOf(call[p].options)

\* C3, amended: the number of outbound HTTP attempts of a call never exceeds
\* max(0, maxRetries) (a negative maxRetries gives zero attempts); inside the
\* loop the attempt counter is in 1..maxRetries, and the attempts made so far
\* number attempt or attempt - 1.
C3_AttemptsBounded ==
    \A p \in Callers :
        call[p].pc # "idle"
        => /\ call[p].outbound <= Max(0, MaxRetriesOf(call[p].options))
           /\ call[p].pc \in InLoop
              => /\ call[p].attempt \in 1..MaxRetriesOf(call[p].options)
                 /\ call[p].outbound \in {call[p].attempt - 1, call[p].attempt}

\* a call with the default maxRetries has made its third outbound attempt
C3_Witness ==
    \E p \in Callers :
        /\ call[p].options.maxRetries = NONE
        /\ call[p].pc = "inflight"
        /\ call[p].outbound = 3

-----------------------------------------------------------------------------
\* C4: within one call the i-th backoff sleep, the one after failed attempt i,
\* lasts 2^i seconds; the sleeps are non-decreasing; a call sleeps in backoff
\* only after a failed attempt that is not the last one, so a call that
\* exhausts maxRetries >= 1 attempts has slept maxRetries - 1 times.
C4_BackoffIsTwoToTheAttempt ==
    \A p \in Callers :
        LET f == call[p] IN
        /\ \A i \in 1..Len(f.backoffs) : f.backoffs[i] = (2 ^ i) * 1000
        /\ \A i \in 1..Len(f.backoffs) - 1 : f.backoffs[i] <= f.backoffs[i + 1]
        /\ Len(f.backoffs) = Len(f.failures) \/ Len(f.backoffs) = Len(f.failures) - 1
        /\ f.pc = "backoff"
           => /\ Len(f.backoffs) = Len(f.failures)
              /\ Len(f.failures) < MaxRetriesOf(f.options)
        /\ (Exhausted(f) /\ Len(f.failures) >= 1)
           => /\ Len(f.failures) = MaxRetriesOf(f.options)
              /\ Len(f.backoffs) = MaxRetriesOf(f.options) - 1

\* three attempts have failed after sleeps of 2 s and 4 s
C4_Witness ==
    \E p \in Callers :
        /\ Exhausted(call[p])
        /\ Len(call[p].failures) = 3
        /\ call[p].backoffs = <<2000, 4000>>

-----------------------------------------------------------------------------
\* C5: a call that is not answered from the cache and whose k-th outbound
\* attempt is the first to succeed (attempts 1..k-1 failed) returns
\* attempts = k and fromCache = false after exactly k - 1 backoff sleeps and
\* exactly k outbound calls, with 1 <= k <= maxRetries.
C5_SuccessOnAttemptK ==
    \A p \in Callers :
        LET f == call[p]
            k == Len(f.failures) + 1
        IN  (f.pc = "done" /\ f.outbound > 0)
            => /\ f.result.attempts = k
               /\ f.result.fromCache = FALSE
               /\ Len(f.backoffs) = k - 1
               /\ f.outbound = k
               /\ k \in 1..MaxRetriesOf(f.options)

\* attempts 1 and 2 failed, attempt 3 succeeded after two backoff sleeps
C5_Witness ==
    \E p \in Callers :
        /\ call[p].pc = "done"
        /\ Len(call[p].failures) = 2
        /\ call[p].result.attempts = 3
        /\ call[p].result.fromCache = FALSE
        /\ Len(call[p].backoffs) = 2
        /\ call[p].lookups = 1

-----------------------------------------------------------------------------
\* C6 as stated: when a call has ended in failure (empty prompt, missing
\* credential, or all of its maxRetries >= 1 attempts failed) the cache store
\* is exactly what it was when the call started.
C6_FailedCallLeavesStoreUntouched ==
    \A p \in Callers :
        (/\ call[p].pc = "failed"
         /\ \/ ~Exhausted(call[p])
            \/ /\ Len(call[p].failures) >= 1
               /\ Len(call[p].failures) = MaxRetriesOf(call[p].options))
        => cache = call[p].before

\* C6, amended: a call that ends in failure never inserts or overwrites a
\* cache entry.  After an empty-prompt or missing-credential failure the store
\* is exactly what it was, and the call made no cache operation; after
\* exhausted retries every entry still stored is the one stored before the
\* call and the only entry that can be gone is the call's own key, deleted by
\* its lookup because it had already expired.
C6_FailedCallStoresNothing ==
    \A p \in Callers :
        LET f == call[p] IN
        f.pc = "failed"
        => /\ f.sets = 0
           /\ DOMAIN cache \subseteq DOMAIN f.before
           /\ \A k \in DOMAIN cache : cache[k] = f.before[k]
           /\ \A k \in DOMAIN f.before \ DOMAIN cache :
                 /\ k = KeyOf(f)
                 /\ f.lookups = 1
                 /\ f.before[k].t < now
           /\ ~Exhausted(f) => f.lookups = 0 /\ cache = f.before

\* all attempts of a call failed while an entry stored before it is still there
C6_Witness ==
    \E p \in Callers :
        /\ Exhausted(call[p])
        /\ call[p].outbound >= 1
        /\ call[p].before # << >>
        /\ cache = call[p].before

-----------------------------------------------------------------------------
\* the options in force in the step caller p takes
StepOptions(p) == IF call[p].pc = "idle" THEN call'[p].options ELSE call[p].options

\* C7: no step of a call with useCache = false reads or writes the cache: the
\* stored entries and the hit and miss counters stay as they are.  Such a call
\* with a prompt is never answered from the cache, even when an unexpired
\* entry for its key is stored: once validated it enters the retry loop.
C7_UseCacheFalseBypassesCache ==
    [][\A p \in Callers :
        (Step(p) /\ StepOptions(p).useCache = {FALSE})
        => /\ cache' = cache
           /\ hits' = hits
           /\ misses' = misses
           /\ call'[p].lookups = 0
           /\ call'[p].sets = 0
           /\ ~ServedFromCache(call'[p])
           /\ (Starts(p) /\ PromptGiven(call'[p].prompt) /\ apiKey)
              => \/ call'[p].pc \in {"rlwait", "gated"}
                 \/ MaxRetriesOf(call'[p].options) < 1 /\ Exhausted(call'[p])]_vars

\* a call with useCache = false has an outbound request in flight while an
\* unexpired entry for its key is stored
C7_Witness ==
    \E p \in Callers :
        /\ call[p].options.useCache = {FALSE}
        /\ call[p].pc = "inflight"
        /\ KeyOf(call[p]) \in DOMAIN cache
        /\ cache[KeyOf(call[p])].t >= now

-----------------------------------------------------------------------------
\* C8: a call with an empty prompt fails in its first step with status 400,
\* with no outbound call and no cache operation, and leaves the cache, its
\* counters and the rate-limit timestamp as they are, whatever the options
\* and the cache contents.
C8_EmptyPromptRejected ==
    [][\A p \in Callers :
        (Starts(p) /\ call'[p].prompt = EmptyPrompt)
        => /\ call'[p].pc = "failed"
           /\ call'[p].error.status = 400
           /\ call'[p].outbound = 0
           /\ call'[p].lookups = 0
           /\ call'[p].sets = 0
           /\ cache' = cache
           /\ hits' = hits
           /\ misses' = misses
           /\ lastApiCall' = lastApiCall]_vars

\* an empty prompt was rejected while the cache holds an entry
C8_Witness ==
    \E p \in Callers :
        /\ call[p].pc = "failed"
        /\ call[p].prompt = EmptyPrompt
        /\ call[p].error.status = 400
        /\ DOMAIN cache # {}

-----------------------------------------------------------------------------
\* C9: without the API credential a call with a prompt fails in its first
\* step with status 500, without a retry, an outbound call, a cache lookup or
\* a change of the rate-limit timestamp.
C9_MissingCredentialRejected ==
    [][\A p \in Callers :
        (Starts(p) /\ PromptGiven(call'[p].prompt) /\ ~apiKey)
        => /\ call'[p].pc = "failed"
           /\ call'[p].error.status = 500
           /\ call'[p].error.text = "OpenAI API key not configured"
           /\ call'[p].attempt = 0
           /\ call'[p].backoffs = << >>
           /\ call'[p].outbound = 0
           /\ call'[p].lookups = 0
           /\ cache' = cache
           /\ hits' = hits
           /\ misses' = misses
           /\ lastApiCall' = lastApiCall]_vars

\* a call with a prompt was rejected for the missing credential
C9_Witness ==
    \E p \in Callers :
        /\ ~apiKey
        /\ call[p].pc = "failed"
        /\ PromptGiven(call[p].prompt)
        /\ call[p].error.status = 500
        /\ call[p].options.maxRetries = NONE

-----------------------------------------------------------------------------
\* what the error of a failed attempt says: the API's message when the
\* response carries one, the error's own message otherwise
CauseOf(e) == IF e.api # "" THEN e.api ELSE e.msg

\* C10: when all maxRetries >= 1 outbound attempts of a call have failed, the
\* call has thrown its one error: status 500, the cause of the last failed
\* attempt, and a number of attempts equal to the outbound calls made.
C10_ExhaustedRetriesError ==
    \A p \in Callers :
        LET f == call[p] IN
        (/\ f.pc # "idle"
         /\ MaxRetriesOf(f.options) >= 1
         /\ Len(f.failures) = MaxRetriesOf(f.options))
        => /\ f.pc = "failed"
           /\ f.error.status = 500
           /\ f.error.text = "Failed to generate image"
           /\ f.error.cause = CauseOf(f.failures[Len(f.failures)])
           /\ f.error.attempts = f.outbound
           /\ f.result = NoResult

\* three attempts failed, the last one for another cause than the first
C10_Witness ==
    \E p \in Callers :
        /\ Exhausted(call[p])
        /\ Len(call[p].failures) = 3
        /\ CauseOf(call[p].failures[1]) # CauseOf(call[p].failures[3])
        /\ call[p].error.cause = CauseOf(call[p].failures[3])


\* --------------------------------------------------------------------------
\* C11  When calls do not overlap, every attempt passes the gate the same
\*      way: it sleeps until lastApiCall + MIN_DELAY when that lies ahead and
\*      not at all otherwise, sets lastApiCall to the current time and issues
\*      its request at that time; so every outbound HTTP call is issued at
\*      least MIN_DELAY after the one before it, whether the two belong to
\*      the retries of one call or to two successive calls.
EntersGate(p) == call[p].pc \in {"idle", "backoff"} /\ call'[p].pc \in {"rlwait", "gated"}

C11_SuccessiveCallsAreMinDelayApart ==
    [][\A p \in callers :
          /\ EntersGate(p) =>
                IF lastApiCall + MIN_DELAY > now
                THEN /\ call'[p].pc = "rlwait"
                     /\ call'[p].resume = lastApiCall + MIN_DELAY
                     /\ lastApiCall' = lastApiCall
                ELSE /\ call'[p].pc = "gated"
                     /\ lastApiCall' = now
          /\ (call[p].pc = "rlwait" /\ Step(p)) =>
                /\ now >= lastApiCall + MIN_DELAY
                /\ call'[p].pc = "gated"
                /\ lastApiCall' = now
          /\ (call[p].pc = "gated" /\ Step(p)) =>
                /\ call'[p].pc = "inflight"
                /\ lastApiCall = now
                /\ lastPost = 0 \/ now - lastPost >= MIN_DELAY
                /\ lastPost' = now
    ]_vars

\* the second call has slept in the gate and issues its first request, one
\* MIN_DELAY after the request of the call before it
C11_Witness ==
    \E p \in callers :
        /\ call[p].pc = "inflight"
        /\ call[p].id = 2
        /\ call[p].outbound = 1
        /\ call[p].resume = now
        /\ lastPost = now
        /\ lastApiCall = now
        /\ now = StartTime + MIN_DELAY


\* --------------------------------------------------------------------------
\* Two callers side by side.  Each caller runs generateProductImage as
\* before; the steps of the two interleave at every await.
ConcRequests ==
    {PromptMug} \X [model : {NONE}, size : {NONE}, quality : {NONE}, style : {NONE},
                    maxRetries : {{2}}, useCache : {NONE}]

\* the request times out
ConcErrors == {e \in Errors : e.api = ""}

InitConc == InitState /\ callers = Callers

NextConc ==
    \/ \E p \in callers, r \in ConcRequests : Call(p, r[1], r[2])
    \/ \E p \in callers : RateLimitWake(p)
    \/ \E p \in callers : Post(p)
    \/ \E p \in callers : Succeed(p)
    \/ \E p \in callers, e \in ConcErrors : Fail(p, e)
    \/ \E p \in callers : BackoffWake(p)
    \/ \E p \in callers : Return(p)
    \/ Tick

SpecConc == InitConc /\ [][NextConc]_vars

\* --------------------------------------------------------------------------
\* C12  Whatever the interleaving of concurrent callers, no outbound HTTP
\*      call is issued less than MIN_DELAY after the one issued before it.
C12_NoTwoCallsCloserThanMinDelay ==
    [][\A p \in callers :
          (call[p].pc = "gated" /\ call'[p].pc = "inflight") =>
              (lastPost = 0 \/ now - lastPost >= MIN_DELAY)
    ]_vars


\* --------------------------------------------------------------------------
\* POST /generate-product-image: the handler around the call.  The caller is
\* the handler's try block; whatever it throws reaches the catch, which
\* answers with the status the error carries.

\* what can fail an outbound attempt: an HTTP error with and without an API
\* message, a network error, the 60 s timeout, and a 200 response whose body
\* has no data[0] (reading .url of undefined throws inside the try)
AllErrors ==
    Errors \cup
    { [api |-> "", msg |-> "Request failed with status code 401"],
      [api |-> "", msg |-> "getaddrinfo ENOTFOUND api.openai.com"],
      [api |-> "", msg |-> "Cannot read properties of undefined (reading 'url')"] }

RouteRequests ==
    ({PromptMug} \X [model : {NONE}, size : {NONE}, quality : {NONE}, style : {NONE},
                     maxRetries : {{0}, {2}}, useCache : {NONE, {FALSE}}])
        \cup {<<EmptyPrompt, NoOptions>>}

\* an error thrown in the try block by something other than the wrapper
\* (await Product.findById(productId) rejects): it carries no cause
LookupError == [status |-> 0, text |-> "Cast to ObjectId failed", attempts |-> 0, cause |-> ""]

\* (a catch that answers every error with 500)
StatusCode_always500(err) == 500

\* const statusCode = error.cause?.status || 500
StatusCode(err) == IF err.status # 0 THEN err.status ELSE 500

\* the try block throws before generateProductImage is called
RouteThrows(p) ==
    /\ call[p].pc = "idle"
    /\ calls < CallBudget
    /\ calls' = calls + 1
    /\ call' = [call EXCEPT ![p] = [IdleFrame EXCEPT !.pc = "threw", !.id = calls + 1,
                                                     !.error = LookupError,
                                                     !.before = cache]]
    /\ UNCHANGED <<now, lastApiCall, cache, hits, misses, apiKey, callers, lastIns, insertedAt,
                   lastPost, cleared>>
    /\ UNCHANGED shopVars

\* res.json(...) after the call returned, res.status(statusCode).json(...)
\* in the catch
RouteRespond(p) ==
    /\ call[p].pc \in {"done", "failed", "threw"}
    /\ call' = [call EXCEPT ![p].pc = "answered",
                            ![p].response = IF call[p].pc = "done"
                                            THEN 200 ELSE StatusCode(call[p].error)]
    /\ UNCHANGED <<now, lastApiCall, cache, hits, misses, apiKey, calls, callers, lastIns,
                   insertedAt, lastPost, cleared>>
    /\ UNCHANGED shopVars

\* the response has been sent; the slot is free again
RouteReturn(p) ==
    /\ call[p].pc = "answered"
    /\ call' = [call EXCEPT ![p] = IdleFrame]
    /\ UNCHANGED <<now, lastApiCall, cache, hits, misses, apiKey, calls, callers, lastIns,
                   insertedAt, lastPost, cleared>>
    /\ UNCHANGED shopVars

NextRoute ==
    \/ \E p \in callers, r \in RouteRequests : Call(p, r[1], r[2])
    \/ \E p \in callers : RouteThrows(p)
    \/ \E p \in callers : RateLimitWake(p)
    \/ \E p \in callers : Post(p)
    \/ \E p \in callers : Succeed(p)
    \/ \E p \in callers, e \in AllErrors : Fail(p, e)
    \/ \E p \in callers : BackoffWake(p)
    \/ \E p \in callers : RouteRespond(p)
    \/ \E p \in callers : RouteReturn(p)
    \/ Tick

SpecRoute == Init /\ [][NextRoute]_vars

C18_EveryAttemptFailureIsRetried ==
    [][\A p \in callers :
          /\ (call[p].pc = "inflight" /\ Len(call'[p].failures) = Len(call[p].failures) + 1) =>
                /\ call'[p].lastError \in AllErrors
                /\ IF call[p].attempt < MaxRetriesOf(call[p].options)
                   THEN /\ call'[p].pc = "backoff"
                        /\ call'[p].attempt = call[p].attempt
                   ELSE Exhausted(call'[p])
          /\ (call[p].pc = "backoff" /\ Step(p)) =>
                /\ call'[p].pc \in {"rlwait", "gated"}
                /\ call'[p].attempt = call[p].attempt + 1
          /\ (Starts(p) /\ (call'[p].prompt = EmptyPrompt \/ ~apiKey)
                        /\ call'[p].pc # "threw") =>
                /\ call'[p].pc = "failed"
                /\ ~Exhausted(call'[p])
                /\ call'[p].attempt = 0
                /\ call'[p].outbound = 0
                /\ call'[p].failures = << >>
          /\ (call[p].pc = "failed" /\ Step(p)) => call'[p].pc \in {"answered", "idle"}
    ]_vars

\* a response without data[0] at the first attempt was retried, and the 401
\* that failed the second and last attempt ended the call
C18_Witness ==
    \E p \in callers :
        /\ Exhausted(call[p])
        /\ call[p].outbound = 2
        /\ Len(call[p].failures) = 2
        /\ call[p].failures[1].msg = "Cannot read properties of undefined (reading 'url')"
        /\ call[p].failures[2].msg = "Request failed with status code 401"


\* --------------------------------------------------------------------------
\* Calls whose options are omitted or given explicitly: none given, the
\* default model given alone, all four defaults given, and another model
TwoAttempts == [NoOptions EXCEPT !.maxRetries = {2}]
OneAttempt == [NoOptions EXCEPT !.maxRetries = {1}]

KeyRequests ==
    {PromptMug} \X {TwoAttempts,
                    [OneAttempt EXCEPT !.model = {"dall-e-3"}],
                    [OneAttempt EXCEPT !.model = {"dall-e-3"}, !.size = {"1024x1024"},
                                       !.quality = {"standard"}, !.style = {"vivid"}],
                    [OneAttempt EXCEPT !.model = {"dall-e-2"}]}

NextKeys ==
    \/ \E p \in callers, r \in KeyRequests : Call(p, r[1], r[2])
    \/ \E p \in callers : RateLimitWake(p)
    \/ \E p \in callers : Post(p)
    \/ \E p \in callers : Succeed(p)
    \/ \E p \in callers, e \in ConcErrors : Fail(p, e)
    \/ \E p \in callers : BackoffWake(p)
    \/ \E p \in callers : Return(p)
    \/ Tick

SpecKeys == Init /\ [][NextKeys]_vars

\* --------------------------------------------------------------------------
\* C14  The cache key depends on model, size, quality, style and prompt
\*      only: the key of a call is the key of the same call with each
\*      omitted option written out as its default (dall-e-3, 1024x1024,
\*      standard, vivid), and the key computed for a request in the current
\*      state (whatever the cache holds, whatever lastApiCall and the clock
\*      are) is the key under which that request's result was stored before.
WrittenOut(o) ==
    [o EXCEPT !.model = IF @ = NONE THEN {"dall-e-3"} ELSE @,
              !.size = IF @ = NONE THEN {"1024x1024"} ELSE @,
              !.quality = IF @ = NONE THEN {"standard"} ELSE @,
              !.style = IF @ = NONE THEN {"vivid"} ELSE @]

C14_KeyDependsOnInputsOnly ==
    /\ \A p \in callers :
          call[p].pc # "idle" =>
              createCacheKey(call[p].prompt, call[p].options)
                  = createCacheKey(call[p].prompt, WrittenOut(call[p].options))
    /\ \A fp \in DOMAIN lastIns :
          LET k == createCacheKey(fp[1], [NoOptions EXCEPT !.model = fp[2], !.size = fp[3],
                                                           !.quality = fp[4], !.style = fp[5]])
          IN  k \in DOMAIN insertedAt /\ insertedAt[k] >= lastIns[fp]

\* a call that spells out the four defaults is served, a second later, the
\* entry stored by a call that omitted them
C14_Witness ==
    \E p \in callers :
        /\ ServedFromCache(call[p])
        /\ call[p].options = WrittenOut(OneAttempt)
        /\ DOMAIN lastIns = {Fingerprint(PromptMug, NoOptions)}
        /\ now > lastIns[Fingerprint(PromptMug, NoOptions)]


\* --------------------------------------------------------------------------
\* The states of the call's state machine.  CacheLookup and CacheMiss are
\* passed within the first step of a call, which ends in CacheHit, in
\* Attempting or in an error.
StateOf(f) ==
    CASE f.pc = "idle" -> "Idle"
      [] f.pc \in {"rlwait", "gated", "inflight"} -> "Attempting"
      [] f.pc = "backoff" -> "Backoff"
      [] f.pc = "done" -> IF f.result.fromCache THEN "CacheHit" ELSE "Success"
      [] f.pc = "failed" -> IF Exhausted(f) THEN "ExhaustedRetries" ELSE "Rejected"
      [] OTHER -> "Handler"

Validated(p) == Starts(p) /\ call'[p].prompt # EmptyPrompt /\ apiKey

FailsAttempt(p) ==
    call[p].pc = "inflight" /\ Len(call'[p].failures) = Len(call[p].failures) + 1

\* the transitions of the machine that do not end in ExhaustedRetries
MachineStep(p) ==
    LET a == StateOf(call[p])
        b == StateOf(call'[p])
    IN  /\ a = "Idle" =>
              \/ Validated(p) /\ b = "CacheHit" /\ call'[p].lookups = 1
              \/ Validated(p) /\ b = "Attempting" /\ call'[p].attempt = 1
              \/ Validated(p) /\ b = "ExhaustedRetries"
              \/ ~Validated(p) /\ b = "Rejected"
        /\ a = "Attempting" =>
              \/ b = "Attempting" /\ call'[p].attempt = call[p].attempt
                                  /\ <<call[p].pc, call'[p].pc>> \in
                                         {<<"rlwait", "gated">>, <<"gated", "inflight">>}
              \/ b = "Success" /\ call[p].pc = "inflight"
              \/ b = "Backoff"
              \/ b = "ExhaustedRetries"
        /\ b = "Backoff" =>
              /\ a = "Attempting"
              /\ FailsAttempt(p)
              /\ call[p].attempt < MaxRetriesOf(call[p].options)
        /\ a = "Backoff" =>
              /\ b = "Attempting"
              /\ call'[p].attempt = call[p].attempt + 1
        /\ a \in {"CacheHit", "Success", "ExhaustedRetries", "Rejected"} => b = "Idle"

\* C15 as stated: a validated call takes only the transitions of the
\* machine, and ExhaustedRetries is entered only by the failed final attempt.
C15_OnlyMachineTransitions ==
    [][\A p \in callers :
          Step(p) =>
              /\ MachineStep(p)
              /\ StateOf(call'[p]) = "ExhaustedRetries" =>
                    /\ FailsAttempt(p)
                    /\ call[p].attempt = MaxRetriesOf(call[p].options)
    ]_vars

\* C15  A validated call takes only the transitions Idle -> CacheHit,
\*      Idle -> Attempting (the cache missed or was not consulted),
\*      Attempting -> Success, Attempting -> Backoff -> Attempting and
\*      Attempting -> ExhaustedRetries; CacheHit, Success and
\*      ExhaustedRetries are terminal; Backoff follows only a failed
\*      attempt that is not the last.  ExhaustedRetries follows the failed
\*      last attempt when maxRetries >= 1; with maxRetries <= 0 the call
\*      goes from the cache miss straight to ExhaustedRetries, with no
\*      attempt made.
C15_MachineTransitions ==
    [][\A p \in callers :
          Step(p) =>
              /\ MachineStep(p)
              /\ StateOf(call'[p]) = "ExhaustedRetries" =>
                    IF MaxRetriesOf(StepOptions(p)) >= 1
                    THEN /\ FailsAttempt(p)
                         /\ call[p].attempt = MaxRetriesOf(call[p].options)
                    ELSE /\ Validated(p)
                         /\ call'[p].outbound = 0
                         /\ call'[p].failures = << >>
    ]_vars

\* a call has gone Attempting -> Backoff -> Attempting -> Backoff ->
\* Attempting -> ExhaustedRetries
C15_Witness ==
    \E p \in callers :
        /\ StateOf(call[p]) = "ExhaustedRetries"
        /\ call[p].options.maxRetries = NONE
        /\ call[p].outbound = 3
        /\ Len(call[p].backoffs) = 2
        /\ Len(call[p].failures) = 3


\* --------------------------------------------------------------------------
\* Two callers under the scheduling the runtime provides: a timer that has
\* been set fires, the continuation of a resolved promise runs, an HTTP call
\* ends (axios is given timeout: 60000), and the clock moves on while a
\* caller sleeps.

\* time passes while some caller waits for a timer
Tock ==
    /\ \E p \in callers : call[p].pc \in {"rlwait", "backoff"} /\ call[p].resume > now
    /\ \A p \in callers : call[p].pc # "gated"
    /\ now' = now + ShortJump
    /\ UNCHANGED <<lastApiCall, cache, hits, misses, apiKey, call, calls, callers, lastIns,
                   insertedAt, lastPost, cleared>>
    /\ UNCHANGED shopVars

\* the outbound call of p ends, with a response or with an error
Responds(p) == Succeed(p) \/ \E e \in ConcErrors : Fail(p, e)

NextLive ==
    \/ \E p \in callers, r \in ConcRequests : Call(p, r[1], r[2])
    \/ \E p \in callers : RateLimitWake(p)
    \/ \E p \in callers : Post(p)
    \/ \E p \in callers : Responds(p)
    \/ \E p \in callers : BackoffWake(p)
    \/ \E p \in callers : Return(p)
    \/ Tock

SpecLive ==
    /\ InitConc
    /\ [][NextLive]_vars
    /\ WF_vars(Tock)
    /\ \A p \in Callers :
          /\ WF_vars(RateLimitWake(p))
          /\ WF_vars(Post(p))
          /\ WF_vars(Responds(p))
          /\ WF_vars(BackoffWake(p))

\* --------------------------------------------------------------------------
\* C16  Every call that has entered the retry loop ends, with a result or
\*      with an error, whatever the other caller does, provided timers fire
\*      and outbound calls end.  (A call that does not enter the loop ends
\*      in its first step.)
C16_EveryCallTerminates ==
    \A p \in Callers :
        (call[p].pc \in InLoop) ~> (call[p].pc \in {"done", "failed"})

\* both callers are through: one gave up after a backoff and a second
\* attempt, the other has its result after sleeping in the gate
C16_Witness ==
    \E p, q \in callers :
        /\ Exhausted(call[p])
        /\ Len(call[p].backoffs) = 1
        /\ call[p].outbound = 2
        /\ call[q].pc = "done"
        /\ ~call[q].result.fromCache
        /\ call[q].resume > 0


\* --------------------------------------------------------------------------
\* C17  A step of generateProductImage changes, of the state shared between
\*      calls, nothing but lastApiCall and the cache store (the credential
\*      is only read), and a call served from the cache changes neither:
\*      lastApiCall and the entries of the cache are after the hit what they
\*      were before it.
C17_CacheHitLeavesSharedStateAlone ==
    [][\A p \in callers :
          Step(p) =>
              /\ apiKey' = apiKey
              /\ \A q \in callers \ {p} : call'[q] = call[q]
              /\ (Starts(p) /\ ServedFromCache(call'[p])) =>
                    /\ lastApiCall' = lastApiCall
                    /\ cache' = cache
                    /\ lastPost' = lastPost
                    /\ call'[p].sets = 0
                    /\ call'[p].outbound = 0
    ]_vars

\* a call has been served from the cache, some time after the entry was
\* stored and the last outbound call was made
C17_Witness ==
    \E p \in callers :
        /\ ServedFromCache(call[p])
        /\ call[p].before = cache
        /\ cache # << >>
        /\ lastApiCall < now
        /\ hits = 1


\* --------------------------------------------------------------------------
\* The cache's administration: getCacheStats, getCacheSize and clearCache,
\* served by GET /cache/stats and DELETE /cache/clear next to the calls.

\* a quotient a / b of two counters; b = 0 stands for NaN (0 / 0)
Ratio(a, b) == [num |-> a, den |-> b]

\* (a fallback that is never taken)
OrZero_never(r) == r

\* x || 0: NaN and 0 are falsy
OrZero(r) == IF r.den = 0 \/ r.num = 0 THEN Ratio(0, 1) ELSE r

\* getStats of node-cache counts the stored keys, the hits and the misses
\* (vsize, an estimate of the stored bytes, is left out)
getCacheStats ==
    [keys |-> Cardinality(DOMAIN cache),
     hits |-> hits,
     misses |-> misses,
     hitRate |-> OrZero(Ratio(hits, hits + misses))]

\* imageCache.keys().length
getCacheSize == Cardinality(DOMAIN cache)

\* (a flush that drops only what has expired)
CacheAfterFlush_expiredOnly(c) == [k \in {x \in DOMAIN c : ~Expired(c[x], now)} |-> c[k]]

\* flushAll: this.data = {}
CacheAfterFlush(c) == << >>

\* clearCache: flushAll empties the store and resets its statistics
ClearCache ==
    /\ cache' = CacheAfterFlush(cache)
    /\ hits' = 0
    /\ misses' = 0
    /\ cleared' = cleared \cup DOMAIN cache
    /\ UNCHANGED <<now, lastApiCall, apiKey, call, calls, callers, lastIns, insertedAt, lastPost>>
    /\ UNCHANGED shopVars

NextAdmin ==
    \/ \E p \in callers, r \in RouteRequests : Call(p, r[1], r[2])
    \/ \E p \in callers : RateLimitWake(p)
    \/ \E p \in callers : Post(p)
    \/ \E p \in callers : Succeed(p)
    \/ \E p \in callers, e \in ConcErrors : Fail(p, e)
    \/ \E p \in callers : BackoffWake(p)
    \/ \E p \in callers : Return(p)
    \/ ClearCache
    \/ Tick

SpecAdmin == Init /\ [][NextAdmin]_vars


\* --------------------------------------------------------------------------
\* C19  The statistics count the lookups since the cache was created or last
\*      cleared: they start at 0 and are 0 again after clearCache; a call
\*      with a non-empty prompt, the credential present and useCache on adds
\*      one to hits + misses and any other call adds nothing; hits grows by
\*      one exactly when the call returns fromCache = true; no later step of
\*      a call changes them; and hitRate is 0 when hits + misses is 0 and
\*      hits / (hits + misses) otherwise.
HitRateReflects(s) ==
    IF s.hits + s.misses = 0
    THEN s.hitRate = Ratio(0, 1)
    ELSE /\ s.hitRate.den > 0
         /\ s.hitRate.num * (s.hits + s.misses) = s.hits * s.hitRate.den

C19_StatsCountLookups ==
    [][LET s == getCacheStats
           t == getCacheStats'
       IN  /\ HitRateReflects(s) /\ HitRateReflects(t)
           /\ calls = 0 /\ cleared = {} => s.hits = 0 /\ s.misses = 0
           /\ \A p \in callers :
                 /\ Starts(p) =>
                       /\ (t.hits + t.misses) - (s.hits + s.misses) =
                             IF Validated(p) /\ call'[p].options.useCache # {FALSE}
                             THEN 1 ELSE 0
                       /\ t.hits - s.hits = IF call'[p].result.fromCache THEN 1 ELSE 0
                       /\ call'[p].lookups = (t.hits + t.misses) - (s.hits + s.misses)
                 /\ (Step(p) /\ ~Starts(p)) => t.hits = s.hits /\ t.misses = s.misses
                                              /\ (call'[p].result.fromCache => call[p].result.fromCache)
           /\ (call' = call /\ now' = now) =>
                 t.hits = 0 /\ t.misses = 0 /\ t.keys = 0
    ]_vars

\* a miss and a hit since the store was created: one lookup each, hitRate 1/2
C19_Witness ==
    \E p \in callers :
        /\ ServedFromCache(call[p])
        /\ getCacheStats.hits = 1
        /\ getCacheStats.misses = 1
        /\ getCacheStats.hitRate = Ratio(1, 2)
        /\ calls = 2

\* --------------------------------------------------------------------------
\* C20  clearCache leaves the cache without an entry (getCacheSize is 0) and
\*      lastApiCall as it was; the next call for a key that was cached when
\*      clearCache ran, and has not been stored again since, misses and
\*      takes the outbound path.
C20_ClearCacheEmptiesTheStore ==
    [][/\ (call' = call /\ now' = now) =>
             /\ getCacheSize' = 0
             /\ cache' = << >>
             /\ lastApiCall' = lastApiCall
             /\ lastPost' = lastPost
       /\ \A p \in callers :
             (Validated(p) /\ call'[p].options.useCache # {FALSE}
                           /\ KeyOf(call'[p]) \in cleared) =>
                 /\ ~ServedFromCache(call'[p])
                 /\ call'[p].lookups = 1
                 /\ misses' = misses + 1
                 /\ hits' = hits
                 /\ \/ call'[p].pc \in {"rlwait", "gated"}
                    \/ MaxRetriesOf(call'[p].options) < 1 /\ Exhausted(call'[p])
    ]_vars

\* a call for a key that was flushed less than the TTL after it was stored
\* has missed and waits in the gate or has passed it; the store is empty
C20_Witness ==
    \E p \in callers :
        /\ call[p].pc \in {"rlwait", "gated"}
        /\ call[p].lookups = 1
        /\ KeyOf(call[p]) \in cleared
        /\ KeyOf(call[p]) \in DOMAIN insertedAt
        /\ now - insertedAt[KeyOf(call[p])] < stdTTL * 1000
        /\ getCacheSize = 0
        /\ lastApiCall > 0


\* --------------------------------------------------------------------------
\* The shop: categories, products and orders in their collections, and the
\* controllers that create, update and delete them.  A controller runs
\* between its awaits; each database operation it awaits takes effect in one
\* step, and other requests take their steps in between.

CategoryIds == {"k1"}
ProductIds == {"p1", "p2"}
OrderIds == {"o1"}
\* "u0" is the id of no user
UserIds == {"u1", "u0"}
Prices == {10, 25}

Item(pid, q) == [productId |-> pid, quantity |-> q]

\* the products lists of the order requests
ItemLists ==
    { <<Item("p1", 2)>>,
      <<Item("p1", 1), Item("p2", 2)>> }

\* "not given" for a field of a request body
NoId == ""
NoPrice == 0
NoItems == << >>

\* new ObjectId(): an id no document has had
NewId(ids) == CHOOSE x \in ids \ minted : TRUE

Without(f, x) == [y \in DOMAIN f \ {x} |-> f[y]]
With(f, x, v) == [y \in DOMAIN f \cup {x} |-> IF y = x THEN v ELSE f[y]]

Answer(r, status) == [r EXCEPT !.pc = "answered", !.status = status]

\* createCategory: new Category(req.body).save()
CreateCategory ==
    /\ CategoryIds \ minted # {}
    /\ categories' = categories \cup {NewId(CategoryIds)}
    /\ minted' = minted \cup {NewId(CategoryIds)}
    /\ UNCHANGED <<users, products, orders, req>>
    /\ UNCHANGED imageVars

\* deleteCategory: Category.findByIdAndDelete(req.params.id)
DeleteCategory(k) ==
    /\ k \in categories
    /\ categories' = categories \ {k}
    /\ UNCHANGED <<users, products, orders, minted, req>>
    /\ UNCHANGED imageVars

\* createProduct up to product.save(): Category.findById, 400 when not found
CreateProductBegin(k, price) ==
    /\ req.pc = "idle"
    /\ ProductIds \ minted # {}
    /\ LET r == [IdleRequest EXCEPT !.op = "createProduct", !.categoryId = k, !.price = price]
       IN  req' = IF k \in categories THEN [r EXCEPT !.pc = "save"] ELSE Answer(r, 400)
    /\ UNCHANGED <<users, categories, products, orders, minted>>
    /\ UNCHANGED imageVars

\* product.save(), 201
CreateProductSave ==
    /\ req.op = "createProduct"
    /\ req.pc = "save"
    /\ LET id == NewId(ProductIds)
       IN  /\ products' = With(products, id, [price |-> req.price, categoryId |-> req.categoryId])
           /\ minted' = minted \cup {id}
           /\ req' = Answer([req EXCEPT !.made = id], 201)
    /\ UNCHANGED <<users, categories, orders>>
    /\ UNCHANGED imageVars

\* updateProduct with a body that has no categoryId: its one database
\* operation, Product.findByIdAndUpdate(req.params.id, req.body)
UpdatePrice(pid, price) ==
    /\ pid \in DOMAIN products
    /\ products' = [products EXCEPT ![pid].price = price]
    /\ UNCHANGED <<users, categories, orders, minted, req>>
    /\ UNCHANGED imageVars

\* updateProduct with a body that has a categoryId, up to findByIdAndUpdate:
\* Category.findById, 400 when not found
UpdateProductBegin(pid, k, price) ==
    /\ req.pc = "idle"
    /\ k # NoId
    /\ LET r == [IdleRequest EXCEPT !.op = "updateProduct", !.id = pid,
                                    !.categoryId = k, !.price = price]
       IN  req' = IF k # NoId /\ k \notin categories
                  THEN Answer(r, 400) ELSE [r EXCEPT !.pc = "save"]
    /\ UNCHANGED <<users, categories, products, orders, minted>>
    /\ UNCHANGED imageVars

\* Product.findByIdAndUpdate(req.params.id, req.body), 404 when not found
UpdateProductSave ==
    /\ req.op = "updateProduct"
    /\ req.pc = "save"
    /\ IF req.id \in DOMAIN products
       THEN /\ products' = [products EXCEPT ![req.id] =
                   [price |-> IF req.price # NoPrice THEN req.price ELSE @.price,
                    categoryId |-> IF req.categoryId # NoId THEN req.categoryId
                                   ELSE @.categoryId]]
            /\ req' = Answer(req, 200)
       ELSE /\ req' = Answer(req, 404)
            /\ UNCHANGED products
    /\ UNCHANGED <<users, categories, orders, minted>>
    /\ UNCHANGED imageVars

\* deleteProduct: Product.findByIdAndDelete(req.params.id)
DeleteProduct(pid) ==
    /\ pid \in DOMAIN products
    /\ products' = Without(products, pid)
    /\ UNCHANGED <<users, categories, orders, minted, req>>
    /\ UNCHANGED imageVars

\* createOrder up to the loop: User.findById, 400 when not found
CreateOrderBegin(uid, items) ==
    /\ req.pc = "idle"
    /\ OrderIds \ minted # {}
    /\ LET r == [IdleRequest EXCEPT !.op = "createOrder", !.userId = uid, !.items = items]
       IN  req' = IF uid \in users THEN [r EXCEPT !.pc = "items", !.i = 1] ELSE Answer(r, 400)
    /\ UNCHANGED <<users, categories, products, orders, minted>>
    /\ UNCHANGED imageVars

\* (a loop that keeps the amount of the last item only)
ItemTotal_lastOnly(total, price, quantity) == price * quantity

\* total += product.price * orderProduct.quantity
ItemTotal(total, price, quantity) == total + price * quantity

\* one turn of the loop of createOrder and updateOrder: Product.findById,
\* 400 when not found
ReadItem ==
    /\ req.pc = "items"
    /\ LET it == req.items[req.i]
       IN  req' = IF it.productId \in DOMAIN products
                  THEN [req EXCEPT !.total = ItemTotal(@, products[it.productId].price,
                                                       it.quantity),
                                   !.reads = Append(@, products[it.productId].price),
                                   !.i = @ + 1,
                                   !.pc = IF req.i = Len(req.items) THEN "save" ELSE "items"]
                  ELSE Answer(req, 400)
    /\ UNCHANGED <<users, categories, products, orders, minted>>
    /\ UNCHANGED imageVars

\* new Order({ ...req.body, total }).save(), 201
CreateOrderSave ==
    /\ req.op = "createOrder"
    /\ req.pc = "save"
    /\ LET id == NewId(OrderIds)
       IN  /\ orders' = With(orders, id, [userId |-> req.userId, products |-> req.items,
                                           total |-> req.total])
           /\ minted' = minted \cup {id}
           /\ req' = Answer([req EXCEPT !.made = id], 201)
    /\ UNCHANGED <<users, categories, products>>
    /\ UNCHANGED imageVars

\* updateOrder up to the loop; a body without products goes straight to
\* findByIdAndUpdate
UpdateOrderBegin(oid, uid, items) ==
    /\ req.pc = "idle"
    /\ (items = NoItems) # (uid = NoId)
    /\ LET r == [IdleRequest EXCEPT !.op = "updateOrder", !.id = oid, !.userId = uid,
                                    !.items = items]
       IN  req' = IF items # NoItems THEN [r EXCEPT !.pc = "items", !.i = 1]
                                     ELSE [r EXCEPT !.pc = "save"]
    /\ UNCHANGED <<users, categories, products, orders, minted>>
    /\ UNCHANGED imageVars

\* (an update that stores the new list and leaves the total as it was)
UpdatedOrder_keepsTotal(order, r) ==
    IF r.items # NoItems THEN [order EXCEPT !.products = r.items]
                         ELSE [order EXCEPT !.userId = r.userId]

\* the order with the fields of req.body, to which the loop has added total
UpdatedOrder(order, r) ==
    IF r.items # NoItems THEN [order EXCEPT !.products = r.items, !.total = r.total]
                         ELSE [order EXCEPT !.userId = r.userId]

\* Order.findByIdAndUpdate(req.params.id, req.body), 404 when not found
UpdateOrderSave ==
    /\ req.op = "updateOrder"
    /\ req.pc = "save"
    /\ IF req.id \in DOMAIN orders
       THEN /\ orders' = [orders EXCEPT ![req.id] = UpdatedOrder(@, req)]
            /\ req' = Answer(req, 200)
       ELSE /\ req' = Answer(req, 404)
            /\ UNCHANGED orders
    /\ UNCHANGED <<users, categories, products, minted>>
    /\ UNCHANGED imageVars

\* deleteOrder: Order.findByIdAndDelete(req.params.id)
DeleteOrder(oid) ==
    /\ oid \in DOMAIN orders
    /\ orders' = Without(orders, oid)
    /\ UNCHANGED <<users, categories, products, minted, req>>
    /\ UNCHANGED imageVars

\* the response has been sent
RequestDone ==
    /\ req.pc = "answered"
    /\ req' = IdleRequest
    /\ UNCHANGED <<users, categories, products, orders, minted>>
    /\ UNCHANGED imageVars

NextShop ==
    \/ CreateCategory
    \/ \E k \in CategoryIds : DeleteCategory(k)
    \/ \E k \in CategoryIds, price \in Prices : CreateProductBegin(k, price)
    \/ CreateProductSave
    \/ \E pid \in ProductIds, price \in Prices : UpdatePrice(pid, price)
    \/ \E pid \in ProductIds, k \in CategoryIds, price \in Prices \cup {NoPrice} :
            UpdateProductBegin(pid, k, price)
    \/ UpdateProductSave
    \/ \E pid \in ProductIds : DeleteProduct(pid)
    \/ \E uid \in UserIds, items \in ItemLists : CreateOrderBegin(uid, items)
    \/ ReadItem
    \/ CreateOrderSave
    \/ \E oid \in OrderIds, items \in ItemLists : UpdateOrderBegin(oid, NoId, items)
    \/ \E oid \in OrderIds, uid \in UserIds : UpdateOrderBegin(oid, uid, NoItems)
    \/ UpdateOrderSave
    \/ \E oid \in OrderIds : DeleteOrder(oid)
    \/ RequestDone

InitShop == Init /\ apiKey

SpecShop == InitShop /\ [][NextShop]_vars

RECURSIVE OrderTotal(_, _)
\* the sum over the items of the price read for the item times its quantity
OrderTotal(items, reads) ==
    IF items = << >> THEN 0
    ELSE reads[1] * items[1].quantity + OrderTotal(Tail(items), Tail(reads))

\* the handler of the request in progress takes a step
HandlerStep(op) == req' # req /\ (req.op = op \/ req'.op = op)

\* C21: createOrder stores an order whose total is the sum, over the requested
\* items, of the price read for the item during the request times the item's
\* quantity, and answers 201; when the user or a requested product does not
\* exist it answers 400; no other step of the handler touches the orders.
C21_CreateOrderTotalsThePricesRead ==
    [][HandlerStep("createOrder") =>
         /\ (req'.pc = "items" /\ req.pc = "idle") => req'.userId \in users
         /\ (req.pc = "idle" /\ req'.userId \notin users) =>
                req'.pc = "answered" /\ req'.status = 400
         /\ (req.pc = "items" /\ req.items[req.i].productId \notin DOMAIN products) =>
                req'.pc = "answered" /\ req'.status = 400
         /\ (req.pc = "items" /\ req.items[req.i].productId \in DOMAIN products) =>
                /\ req'.reads = Append(req.reads, products[req.items[req.i].productId].price)
                /\ req'.pc # "answered"
         /\ req.pc = "save" =>
                /\ req'.pc = "answered" /\ req'.status = 201
                /\ Len(req.reads) = Len(req.items)
                /\ req'.made \notin DOMAIN orders
                /\ orders' = With(orders, req'.made,
                                  [userId |-> req.userId, products |-> req.items,
                                   total |-> OrderTotal(req.items, req.reads)])
         /\ req.pc # "save" => orders' = orders
         /\ (req'.pc = "answered" /\ req.pc # "answered") => req'.status \in {201, 400}
    ]_vars

\* an order of two items has been stored at prices that differ from each
\* other, one of them no longer the product's price
C21_Witness ==
    /\ req.op = "createOrder"
    /\ req.status = 201
    /\ Len(req.items) = 2
    /\ req.reads[1] # req.reads[2]
    /\ req.made \in DOMAIN orders
    /\ orders[req.made].total = OrderTotal(req.items, req.reads)
    /\ "p1" \in DOMAIN products
    /\ products["p1"].price # req.reads[1]

\* C22: updateOrder with a products list stores the list together with a
\* total recalculated as the sum of the price read for each listed product
\* times its quantity; a listed product that does not exist answers 400 and
\* leaves the orders as they are; an order id that does not exist answers 404
\* when the update is reached, and no order is created.
C22_UpdateOrderRecalculatesTheTotal ==
    [][(HandlerStep("updateOrder") /\ (req.items # NoItems \/ req'.items # NoItems)) =>
         /\ req.pc = "idle" => req'.pc = "items" /\ req'.total = 0 /\ req'.reads = << >>
         /\ (req.pc = "items" /\ req.items[req.i].productId \notin DOMAIN products) =>
                req'.pc = "answered" /\ req'.status = 400
         /\ (req.pc = "items" /\ req.items[req.i].productId \in DOMAIN products) =>
                /\ req'.reads = Append(req.reads, products[req.items[req.i].productId].price)
                /\ req'.pc # "answered"
         /\ (req.pc = "save" /\ req.id \in DOMAIN orders) =>
                /\ req'.pc = "answered" /\ req'.status = 200
                /\ Len(req.reads) = Len(req.items)
                /\ orders' = [orders EXCEPT ![req.id] =
                                 [userId |-> @.userId, products |-> req.items,
                                  total |-> OrderTotal(req.items, req.reads)]]
         /\ (req.pc = "save" /\ req.id \notin DOMAIN orders) =>
                req'.pc = "answered" /\ req'.status = 404
         /\ req'.status # 200 => orders' = orders
         /\ DOMAIN orders' = DOMAIN orders
         /\ minted' = minted
    ]_vars

\* an order has been given a list of two products and the total of the prices read
C22_Witness ==
    /\ req.op = "updateOrder"
    /\ req.status = 200
    /\ Len(req.items) = 2
    /\ req.id \in DOMAIN orders
    /\ orders[req.id].products = req.items
    /\ orders[req.id].total = OrderTotal(req.items, req.reads)
    /\ req.reads[1] # req.reads[2]

\* C29: after any sequence of category and product creations, updates and
\* deletions, the categoryId of every stored product is the id of an existing
\* category.
C29_EveryProductHasItsCategory ==
    \A pid \in DOMAIN products : products[pid].categoryId \in categories

\* the successful outbound call of p ends and stores its result
Stores(p) ==
    /\ call[p].pc = "inflight"
    /\ call'[p].pc = "done"
    /\ UseCacheOf(call[p].options)

\* C23: the result of a cache hit has the imageUrl and the revisedPrompt of
\* the successful outbound call that stored the entry, with fromCache true
\* and attempts 0, whatever attempt that call succeeded on.
C23_HitReturnsTheStoredImage ==
    [][\A p \in callers :
         /\ Stores(p) =>
                /\ call'[p].result.imageUrl = call[p].id
                /\ call'[p].result.attempts = call[p].attempt
                /\ ~call'[p].result.fromCache
                /\ cache'[KeyOf(call[p])].v = call'[p].result
         /\ (Starts(p) /\ call'[p].pc = "done") =>
                /\ KeyOf(call'[p]) \in DOMAIN cache
                /\ call'[p].result.imageUrl = cache[KeyOf(call'[p])].v.imageUrl
                /\ call'[p].result.revisedPrompt = cache[KeyOf(call'[p])].v.revisedPrompt
                /\ call'[p].result.fromCache
                /\ call'[p].result.attempts = 0
         /\ \A k \in DOMAIN cache \cap DOMAIN cache' :
                cache'[k].v # cache[k].v => \E q \in callers : Stores(q) /\ KeyOf(call[q]) = k
    ]_vars

\* a hit on an entry stored by a call that succeeded on its second attempt
C23_Witness ==
    \E p \in callers :
        /\ ServedFromCache(call[p])
        /\ KeyOf(call[p]) \in DOMAIN cache
        /\ cache[KeyOf(call[p])].v.attempts = 2
        /\ call[p].result.imageUrl = cache[KeyOf(call[p])].v.imageUrl
        /\ call[p].result.attempts = 0

\* C24: with maxRetries zero or negative, a call with a prompt (and the
\* credential configured) that is not served from the cache makes no outbound
\* call, waits at no gate, sleeps no backoff, writes nothing to the cache and
\* fails with status 500, reporting maxRetries attempts and an unknown cause.
C24_NoAttemptWithoutRetries ==
    [][\A p \in callers :
         (/\ Validated(p)
          /\ MaxRetriesOf(call'[p].options) <= 0
          /\ call'[p].pc # "done") =>
            /\ call'[p].pc = "failed"
            /\ call'[p].outbound = 0
            /\ call'[p].backoffs = << >>
            /\ call'[p].sets = 0
            /\ lastApiCall' = lastApiCall
            /\ lastPost' = lastPost
            /\ \A k \in DOMAIN cache' : k \in DOMAIN cache /\ cache'[k] = cache[k]
            /\ call'[p].error.status = 500
            /\ call'[p].error.text = "Failed to generate image"
            /\ call'[p].error.attempts = MaxRetriesOf(call'[p].options)
            /\ call'[p].error.cause = "Unknown error"
    ]_vars

\* a call with maxRetries -1 has missed the cache and failed
C24_Witness ==
    \E p \in callers :
        /\ Exhausted(call[p])
        /\ MaxRetriesOf(call[p].options) < 0
        /\ call[p].lookups = 1
        /\ call[p].outbound = 0
        /\ call[p].error.attempts = MaxRetriesOf(call[p].options)


\* --------------------------------------------------------------------------
\* Calls whose prompts differ in letter case, in characters that are not
\* letters or digits, or after the 50th character, and calls as the route
\* passes them on: req.body.options is handed to generateProductImage as it
\* arrives, so an option can be any string (for dall-e-2 the style is not
\* sent to the API, which accepts the request).
PromptAB == <<"a", " ", "b">>
PromptADashB == <<"A", "-", "b">>
PromptB == <<"b">>
LongPrompt(last) == [i \in 1..(KeyPromptLen + 1) |-> IF i > KeyPromptLen THEN last ELSE "x"]

DallE2 == [OneAttempt EXCEPT !.model = {"dall-e-2"}]

PromptRequests ==
    { <<PromptAB, DallE2>>,
      <<PromptADashB, DallE2>>,
      <<PromptB, [DallE2 EXCEPT !.style = {"vivid_a"}]>>,
      <<LongPrompt("y"), TwoAttempts>>,
      <<LongPrompt("z"), OneAttempt>> }

NextPrompts ==
    \/ \E p \in callers, r \in PromptRequests : Call(p, r[1], r[2])
    \/ \E p \in callers : RateLimitWake(p)
    \/ \E p \in callers : Post(p)
    \/ \E p \in callers : Succeed(p)
    \/ \E p \in callers, e \in ConcErrors : Fail(p, e)
    \/ \E p \in callers : BackoffWake(p)
    \/ \E p \in callers : Return(p)
    \/ Tick

SpecPrompts == Init /\ [][NextPrompts]_vars

\* the two prompts are the same in their first 50 characters once lower-cased
\* and with every character other than a-z and 0-9 replaced by "_"
SamePromptPrefix(a, b) ==
    \A i \in 1..KeyPromptLen :
        /\ (i <= Len(a)) = (i <= Len(b))
        /\ i <= Len(a) => Sanitize(toLowerCase(a[i])) = Sanitize(toLowerCase(b[i]))

\* the request whose result was stored under fingerprint fp agrees with the
\* request (pr, o) on model, size, quality, style and prompt prefix
AgreeOnKeyParts(fp, pr, o) ==
    /\ Default(fp[2], DefaultModel) = ModelOf(o)
    /\ Default(fp[3], DefaultSize) = SizeOf(o)
    /\ Default(fp[4], DefaultQuality) = QualityOf(o)
    /\ Default(fp[5], DefaultStyle) = StyleOf(o)
    /\ SamePromptPrefix(fp[1], pr)

KeyOfStored(fp) ==
    createCacheKey(fp[1], [NoOptions EXCEPT !.model = fp[2], !.size = fp[3],
                                            !.quality = fp[4], !.style = fp[5]])

\* the entry stored for fp has not expired
Live(fp) == now <= lastIns[fp] + stdTTL * 1000

\* C25 as stated: a call that may use the cache is served an entry exactly
\* when an unexpired entry was stored by a request that agrees with it on
\* model, size, quality, style and the sanitised first 50 characters of the
\* prompt.
C25_SharedExactlyWhenPartsAgree ==
    [][\A p \in callers :
         (Validated(p) /\ UseCacheOf(call'[p].options)) =>
            (call'[p].pc = "done"
               <=> \E fp \in DOMAIN lastIns :
                      Live(fp) /\ AgreeOnKeyParts(fp, call'[p].prompt, call'[p].options))
    ]_vars

\* C25: a call that may use the cache is served an entry exactly when an
\* unexpired entry was stored under the same key string; a request that
\* agrees with the storing request on model, size, quality, style and the
\* sanitised first 50 characters of the prompt has the same key string, and
\* is served the stored image without an outbound call.
C25_SharedWhenPartsAgree ==
    [][\A p \in callers :
         (Validated(p) /\ UseCacheOf(call'[p].options)) =>
            /\ call'[p].pc = "done"
                  <=> \E fp \in DOMAIN lastIns :
                         Live(fp) /\ KeyOfStored(fp) = KeyOf(call'[p])
            /\ \A fp \in DOMAIN lastIns :
                  (Live(fp) /\ AgreeOnKeyParts(fp, call'[p].prompt, call'[p].options)) =>
                     /\ KeyOfStored(fp) = KeyOf(call'[p])
                     /\ call'[p].pc = "done"
                     /\ call'[p].outbound = 0
                     /\ lastPost' = lastPost
                     /\ call'[p].result.imageUrl = cache[KeyOfStored(fp)].v.imageUrl
    ]_vars

\* a prompt that differs from the stored one in its 51st character only is
\* served the stored image
C25_Witness ==
    \E p \in callers :
        /\ ServedFromCache(call[p])
        /\ call[p].prompt = LongPrompt("z")
        /\ call[p].outbound = 0
        /\ DOMAIN lastIns = {Fingerprint(LongPrompt("y"), TwoAttempts)}

\* C26: two calls with the same key that both look up before either stores
\* both miss and both make their outbound calls; each returns its own result
\* with fromCache false, and each store replaces the entry, so that after
\* both have succeeded the entry holds the result stored last, with its TTL
\* counted from that store.
C26_ConcurrentMissesBothCallOut ==
    [][\A p \in callers :
         /\ (Validated(p) /\ UseCacheOf(call'[p].options)
                /\ ~CacheHas(cache, KeyOf(call'[p]), now)) =>
                /\ call'[p].pc \in {"rlwait", "gated"}
                /\ call'[p].lookups = 1
                /\ misses' = misses + 1
         /\ Stores(p) =>
                /\ call[p].outbound >= 1
                /\ ~call'[p].result.fromCache
                /\ call'[p].result.imageUrl = call[p].id
                /\ cache'[KeyOf(call[p])] = [t |-> now + stdTTL * 1000, v |-> call'[p].result]
                /\ \A q \in callers \ {p} : call'[q].result = call[q].result
    ]_vars

\* both callers looked up while the cache was empty and both have returned
\* an image of their own; the entry is the one stored last
C26_Witness ==
    /\ \A p \in Callers :
          /\ call[p].pc = "done"
          /\ ~call[p].result.fromCache
          /\ call[p].lookups = 1
          /\ call[p].before = << >>
          /\ call[p].outbound = 1
    /\ KeyOf(call["c1"]) = KeyOf(call["c2"])
    /\ call["c1"].result.imageUrl # call["c2"].result.imageUrl
    /\ cache[KeyOf(call["c1"])].v = call["c2"].result
    /\ insertedAt[KeyOf(call["c1"])] > StartTime
    /\ cache[KeyOf(call["c1"])].t = insertedAt[KeyOf(call["c1"])] + stdTTL * 1000


\* --------------------------------------------------------------------------
\* Two callers, a rejected call among the requests, and the cache cleared at
\* any moment
GateRequests == ConcRequests \cup {<<EmptyPrompt, NoOptions>>}

NextGate ==
    \/ \E p \in callers, r \in GateRequests : Call(p, r[1], r[2])
    \/ \E p \in callers : RateLimitWake(p)
    \/ \E p \in callers : Post(p)
    \/ \E p \in callers : Succeed(p)
    \/ \E p \in callers, e \in ConcErrors : Fail(p, e)
    \/ \E p \in callers : BackoffWake(p)
    \/ \E p \in callers : Return(p)
    \/ ClearCache
    \/ Tick

SpecGate == InitConc /\ [][NextGate]_vars

\* p passes the gate: the assignment lastApiCall = Date.now() of
\* enforceRateLimit runs in this step
PassesGate(p) == call[p].pc # "gated" /\ call'[p].pc = "gated"

\* C27: lastApiCall is written once for every outbound attempt, when the
\* attempt passes the gate (after its wait, if any) and before its HTTP call
\* is issued, whether the attempt then succeeds or fails; it never decreases;
\* no other step writes it: not a cache hit, not a rejected call, not
\* clearCache (getCacheStats and getCacheSize only read the cache).
C27_LastApiCallWrittenOncePerAttempt ==
    [][/\ \A p \in callers :
            /\ PassesGate(p) => lastApiCall' = now /\ call'[p].outbound = call[p].outbound
            /\ (call[p].pc = "gated" /\ Step(p)) =>
                   /\ call'[p].pc = "inflight"
                   /\ call'[p].outbound = call[p].outbound + 1
                   /\ lastPost' = now
            /\ call'[p].outbound > call[p].outbound => call[p].pc = "gated"
            /\ call[p].pc = "rlwait" => (PassesGate(p) \/ ~Step(p))
       /\ (\A p \in callers : ~PassesGate(p)) => lastApiCall' = lastApiCall
       /\ lastApiCall' >= lastApiCall
       /\ lastApiCall <= now
    ]_vars

\* a call has made two outbound attempts, the first failed and the second
\* succeeded, the other caller was served from the cache, and the stamp is
\* the time of the last request issued
C27_Witness ==
    \E p, q \in callers :
        /\ call[p].pc = "done"
        /\ call[p].outbound = 2
        /\ Len(call[p].failures) = 1
        /\ ServedFromCache(call[q])
        /\ lastApiCall = lastPost
        /\ lastApiCall < now


\* --------------------------------------------------------------------------
\* POST /ai/generate-product-image: the handler in front of
\* generateProductImage.  The route reads OPENAI_API_KEY from the same
\* environment as the utilities do.

\* the fixed text of the prompt derived from a product
PromptHead ==
    << "P", "r", "o", "f", "e", "s", "s", "i", "o", "n", "a", "l",
         " ", "p", "r", "o", "d", "u", "c", "t", " ", "p", "h", "o",
         "t", "o", "g", "r", "a", "p", "h", "y", " ", "o", "f", " " >>
PromptTail ==
    << ",", " ", "w", "h", "i", "t", "e", " ", "b", "a", "c", "k",
         "g", "r", "o", "u", "n", "d", ",", " ", "h", "i", "g", "h",
         " ", "q", "u", "a", "l", "i", "t", "y", ",", " ", "e", "-",
         "c", "o", "m", "m", "e", "r", "c", "e", " ", "s", "t", "y",
         "l", "e", ",", " ", "s", "t", "u", "d", "i", "o", " ", "l",
         "i", "g", "h", "t", "i", "n", "g", ",", " ", "c", "o", "m",
         "m", "e", "r", "c", "i", "a", "l", " ", "p", "h", "o", "t",
         "o" >>

\* name and description of the product in the catalogue
ProductName == <<"M", "u", "g">>
ProductDescription == <<"C", "u", "p">>

\* `Professional product photography of ${product.name},
\* ${product.description}, white background, ...`
DerivedPrompt == PromptHead \o ProductName \o <<",", " ">> \o ProductDescription \o PromptTail

\* (a handler that passes the custom prompt on as it is)
PromptFor_customOnly(custom) == custom

\* const prompt = customPrompt || `...`: an omitted and an empty custom
\* prompt are both falsy
PromptFor(custom) == IF custom # EmptyPrompt THEN custom ELSE DerivedPrompt

\* the bodies posted: a known and an unknown productId, with and without a
\* custom prompt
HandlerRequests ==
    ProductIds \X {EmptyPrompt, PromptMug} \X {TwoAttempts, [OneAttempt EXCEPT !.useCache = {FALSE}]}

\* the handler up to await Product.findById: the credential check
HandlerBegin(p, pid, custom, o) ==
    /\ call[p].pc = "idle"
    /\ calls < CallBudget
    /\ calls' = calls + 1
    /\ LET f == [IdleFrame EXCEPT !.id = calls + 1, !.productId = pid, !.prompt = custom,
                                  !.options = o, !.before = cache]
       IN  call' = [call EXCEPT ![p] =
               IF ~apiKey THEN [f EXCEPT !.pc = "answered", !.response = 500]
                          ELSE [f EXCEPT !.pc = "lookup"]]
    /\ UNCHANGED <<now, lastApiCall, cache, hits, misses, apiKey, callers, lastIns, insertedAt,
                   lastPost, cleared>>
    /\ UNCHANGED shopVars

\* Product.findById has answered: 404 when there is no such product,
\* otherwise the prompt is chosen and generateProductImage is called
HandlerLookup(p) ==
    /\ call[p].pc = "lookup"
    /\ IF call[p].productId \notin DOMAIN products
       THEN /\ call' = [call EXCEPT ![p].pc = "answered", ![p].response = 404]
            /\ UNCHANGED <<lastApiCall, cache, hits, misses>>
       ELSE Invoke(p, PromptFor(call[p].prompt), call[p].options, call[p].id)
    /\ UNCHANGED <<now, apiKey, calls, callers, lastIns, insertedAt, lastPost, cleared>>
    /\ UNCHANGED shopVars

NextHandler ==
    \/ \E p \in callers, r \in HandlerRequests : HandlerBegin(p, r[1], r[2], r[3])
    \/ \E p \in callers : HandlerLookup(p)
    \/ \E p \in callers : RateLimitWake(p)
    \/ \E p \in callers : Post(p)
    \/ \E p \in callers : Succeed(p)
    \/ \E p \in callers, e \in ConcErrors : Fail(p, e)
    \/ \E p \in callers : BackoffWake(p)
    \/ \E p \in callers : RouteRespond(p)
    \/ \E p \in callers : RouteReturn(p)
    \/ Tick

\* the catalogue holds one product
InitHandler ==
    /\ InitImage
    /\ callers = {"c1"}
    /\ users = {"u1"}
    /\ categories = {"k1"}
    /\ products = [pid \in {"p1"} |-> [price |-> 10, categoryId |-> "k1"]]
    /\ orders = << >>
    /\ minted = {"k1", "p1"}
    /\ req = IdleRequest

SpecHandler == InitHandler /\ [][NextHandler]_vars

\* generateProductImage is running or has returned or thrown
InWrapper(f) == f.pc \in {"rlwait", "gated", "inflight", "backoff", "done", "failed"}

\* nothing of the image utilities is touched
ImageStateUntouched ==
    UNCHANGED <<cache, hits, misses, lastApiCall, lastPost, lastIns, insertedAt, cleared>>

Sleeps(q) == call[q].pc \in {"rlwait", "backoff"}

\* when q's sleep began
SleepBegan(q) ==
    IF call[q].pc = "backoff" THEN call[q].resume - backoffDelay(call[q].attempt)
    ELSE call[q].resume - MIN_DELAY

====
